---- MODULE Spec2Model ----
(***************************************************************************)
(* Model of SonoffManager (sonoff_manager.py): a facade over the eWeLink   *)
(* cloud client.  The manager's fields (session, registry, devices) are    *)
(* the program state.  The collaborators (aiohttp.ClientSession and        *)
(* XRegistryCloud) are modelled as recording stubs: every object they      *)
(* create lives in a small heap, every call the manager makes on them is   *)
(* written to a call log, and what they return or raise is chosen          *)
(* nondeterministically.                                                   *)
(*                                                                         *)
(* The methods are coroutines.  Each is cut into steps at its awaits: a    *)
(* step runs from one await to the next without interruption, as on an     *)
(* asyncio event loop, and between two steps of one call another caller's  *)
(* steps may run.  A collaborator call has its effect and its outcome      *)
(* fixed when it is made; the caller learns the outcome in the step that   *)
(* resumes it.                                                             *)
(*                                                                         *)
(* Spec has one caller, which awaits each call before the next (the use    *)
(* the documentation requires), and a cloud that answers with device       *)
(* records of the documented shape.  SpecOverlap has two callers whose     *)
(* calls may overlap.  SpecMalformed is Spec with a cloud that may also    *)
(* answer with records lacking a key the code subscripts.                  *)
(***************************************************************************)
EXTENDS Integers, Sequences, FiniteSets, TLC

\* ------------------------------------------------------------------ bounds
\* Number of ClientSession objects login may create.
MaxLogins == 2
\* Longest device sequence the stubbed get_devices returns.
MaxDevices == 2

\* ------------------------------------------------------- values and inputs
\* Python's None for the two optional handles.
NoHandle == 0

ObjectIds == 1..MaxLogins

\* Marker for "the call raised" in the call log and in results.
Raised == "<raised>"

\* Device records are records of their keys, and so are params mappings; a
\* params value of None is the record NoneParams.
NoneParams == [NoneType |-> "None"]

\* Records of the documented shape (deviceid, name, params).  Two share the
\* deviceid "A" (the same id seen in two homes); SensorB has params without
\* a switch key; BareC has no params key, for which line 82 has a default.
LampA == [deviceid |-> "A", name |-> "Lamp", params |-> [switch |-> "off"]]
StripA == [deviceid |-> "A", name |-> "Strip", params |-> [switches |-> "off,on"]]
SensorB == [deviceid |-> "B", name |-> "Sensor", params |-> [temperature |-> "20"]]
BareC == [deviceid |-> "C", name |-> "Bare"]

DeviceUniverse == {LampA, StripA, SensorB, BareC}

\* All sequences over S of length at most n.
SeqsUpTo(S, n) == UNION {[1..k -> S] : k \in 0..n}

\* What get_devices may answer.
UpstreamLists == SeqsUpTo(DeviceUniverse, MaxDevices)

\* Records that lack what the code subscripts or tests without a default:
\* PlugB has no name key (lines 102, 117), GhostD no deviceid key (line 138),
\* NullC has params None (line 83).
PlugB == [deviceid |-> "B", params |-> [switch |-> "on"]]
GhostD == [name |-> "Ghost", params |-> [switch |-> "on"]]
NullC == [deviceid |-> "C", name |-> "Null", params |-> NoneParams]

\* Enumerations holding such a record.
MalformedLists ==
    {<<PlugB>>, <<NullC>>, <<LampA, NullC>>, <<GhostD, LampA>>, <<LampA, GhostD>>}

\* Results of get_homes(): the home ids in key order.
HomeMaps == {<<"h1", "h2">>}

\* Ids handed to turn_on / turn_off; "Z" belongs to no device.
RequestIds == {"A", "B", "Z"}

\* Short statuses registry.send() produces (docstring of turn_on).
SendTokens == {"online", "offline", "timeout"}

\* The callers that may have a call on the manager in progress.
Callers == {"c1", "c2"}

\* ------------------------------------------------------------------- state
VARIABLES
    session,        \* self.session: NoHandle or the id of a ClientSession
    registry,       \* self.registry: NoHandle or the id of an XRegistryCloud
    devices,        \* self.devices
    sessionState,   \* heap: ClientSession id -> "absent" | "open" | "closed"
    registryState,  \* heap: XRegistryCloud id -> "absent" | "created" | "running" | "stopped"
    registryAuth,   \* heap: XRegistryCloud id -> its login() completed
    frames,         \* caller -> where its call in progress is suspended, and
                    \* the collaborator calls that call has made so far
    lastOp,         \* the call that completed in the last step, with its
                    \* argument; NoOp when the last step completed none
    result,         \* what that call returned or that it raised
    calls,          \* the collaborator calls that call made, in order
    seen,           \* for a turn_on/turn_off: self.registry and self.devices
                    \* as that call read them (lines 94-97); else NoEntry
    everLogin,      \* login() has been called at least once
    closedSince,    \* close() has returned and login() has not been called since
    stale           \* the discovery that just returned found the list holding
                    \* a record that its own enumeration lacks

vars == <<session, registry, devices, sessionState, registryState, registryAuth,
          frames, lastOp, result, calls, seen, everLogin, closedSince, stale>>

Call(method, target, args, ret) ==
    [method |-> method, target |-> target, args |-> args, ret |-> ret]

Return(v) == [kind |-> "return", val |-> v]

Raise == [kind |-> "raise", val |-> Raised]

Range(s) == {s[i] : i \in DOMAIN s}

\* What a call read of the manager when it was made.
Entry(reg, devs) == [registry |-> reg, devices |-> devs]

NoEntry == Entry(NoHandle, <<>>)

Idle == [pc |-> "idle", calls |-> <<>>, entry |-> NoEntry]

NoOp == [op |-> "-", arg |-> ""]

\* SonoffManager.__init__
Init ==
    /\ session = NoHandle
    /\ registry = NoHandle
    /\ devices = <<>>
    /\ sessionState = [i \in ObjectIds |-> "absent"]
    /\ registryState = [i \in ObjectIds |-> "absent"]
    /\ registryAuth = [i \in ObjectIds |-> FALSE]
    /\ frames = [c \in Callers |-> Idle]
    /\ lastOp = NoOp
    /\ result = Return("None")
    /\ calls = <<>>
    /\ seen = NoEntry
    /\ everLogin = FALSE
    /\ closedSince = FALSE
    /\ stale = FALSE

\* ----------------------------------------------------------------- helpers
\* The id the next ClientSession() object, and the registry built on it, gets.
NextObject == Cardinality({i \in ObjectIds : sessionState[i] # "absent"}) + 1

\* `if not self.registry`
NoRegistry_Never(reg) == FALSE

NoRegistry(reg) == reg = NoHandle

\* is_switch (nested in discover_switches): dev.get("params", {}) has
\* "switch" or "switches".
is_switch_SwitchOnly(dev) ==
    LET params == IF "params" \in DOMAIN dev THEN dev.params ELSE <<>>
    IN  "switch" \in DOMAIN params

is_switch_AnyParams(dev) == "params" \in DOMAIN dev

is_switch(dev) ==
    LET params == IF "params" \in DOMAIN dev THEN dev.params ELSE <<>>
    IN  ("switch" \in DOMAIN params) \/ ("switches" \in DOMAIN params)

\* is_switch raises TypeError: `"switch" in params` with params None.
is_switch_raises(dev) ==
    "params" \in DOMAIN dev /\ dev.params = NoneParams

\* [dev for dev in all_devices if is_switch(dev)]
FilterSwitches(all) == SelectSeq(all, is_switch)

\* self.devices = [...]: the value stored given the old list and the
\* enumeration.
StoreAppending(old, all) == old \o FilterSwitches(all)

StoreDiscovered(old, all) == FilterSwitches(all)

\* _find_device: next((d for d in self.devices if d["deviceid"] == id), None),
\* as the index of the record found, 0 for None.
find_device_Last(devs, device_id) ==
    LET hits == {i \in DOMAIN devs : /\ "deviceid" \in DOMAIN devs[i]
                                     /\ devs[i].deviceid = device_id}
    IN  IF hits = {} THEN 0 ELSE CHOOSE i \in hits : \A j \in hits : j <= i

_find_device(devs, device_id) ==
    LET hits == {i \in DOMAIN devs : /\ "deviceid" \in DOMAIN devs[i]
                                     /\ devs[i].deviceid = device_id}
    IN  IF hits = {} THEN 0 ELSE CHOOSE i \in hits : \A j \in hits : i <= j

\* _find_device raises KeyError: the scan reaches a record without deviceid
\* before it reaches a match.
find_device_raises(devs, device_id) ==
    \E i \in DOMAIN devs :
        /\ "deviceid" \notin DOMAIN devs[i]
        /\ \A j \in 1..(i - 1) : /\ "deviceid" \in DOMAIN devs[j]
                                 /\ devs[j].deviceid # device_id

\* "E#NoRegistry"
NoRegistryToken == "E#NoRegistry"

\* f"E#DeviceNotFound:{device_id}"
NotFoundToken_NoId(device_id) == "E#DeviceNotFound:"

NotFoundToken(device_id) == "E#DeviceNotFound:" \o device_id

\* `if self.session and not self.session.closed`
SessionNeedsClose_Always(sess, states) == sess # NoHandle

SessionNeedsClose(sess, states) == sess # NoHandle /\ states[sess] # "closed"

\* XRegistryCloud.stop(): cancels the channel task if there is one.
Stopped(states, reg) ==
    [i \in DOMAIN states |->
        IF i = reg /\ states[i] = "running" THEN "stopped" ELSE states[i]]

\* XRegistryCloud.start(): creates the channel task.
Started(states, reg) ==
    [i \in DOMAIN states |-> IF i = reg THEN "running" ELSE states[i]]

\* The call of caller c ends in this step: its result and call log are
\* published and its frame is dropped.
Complete(c, op, arg, res, log) ==
    /\ lastOp' = [op |-> op, arg |-> arg]
    /\ result' = res
    /\ calls' = log
    /\ seen' = NoEntry
    /\ frames' = [frames EXCEPT ![c] = Idle]

\* The same for a turn_on/turn_off, which read ent when it was made.
CompleteTurn(c, op, arg, res, log, ent) ==
    /\ lastOp' = [op |-> op, arg |-> arg]
    /\ result' = res
    /\ calls' = log
    /\ seen' = ent
    /\ frames' = [frames EXCEPT ![c] = Idle]

\* The call of caller c suspends at the await named pc.
Suspend(c, pc, log) ==
    /\ lastOp' = NoOp
    /\ result' = Return("None")
    /\ calls' = <<>>
    /\ seen' = NoEntry
    /\ frames' = [frames EXCEPT ![c] =
                    [pc |-> pc, calls |-> log, entry |-> frames[c].entry]]

\* A turn_on/turn_off of id that read ent suspends in registry.send().
SuspendTurn(c, pc, id, log, ent) ==
    /\ lastOp' = NoOp
    /\ result' = Return("None")
    /\ calls' = <<>>
    /\ seen' = NoEntry
    /\ frames' = [frames EXCEPT ![c] =
                    [pc |-> pc, calls |-> log, entry |-> ent, arg |-> id]]

\* ----------------------------------------------------------------- actions
\* login(), lines 35-45: create the session and the registry, call
\* registry.login() and suspend in it.  outcome: "session_error"
\* (ClientSession() raises), "registry_error" (XRegistryCloud() raises) or
\* "proceed".
LoginStart(c, outcome) ==
    /\ frames[c].pc = "idle"
    /\ NextObject <= MaxLogins
    /\ everLogin' = TRUE
    /\ closedSince' = FALSE
    /\ stale' = FALSE
    /\ UNCHANGED <<devices, registryAuth>>
    /\ LET n == NextObject
       IN  CASE outcome = "session_error" ->
                 /\ Complete(c, "login", "", Raise,
                        <<Call("ClientSession", NoHandle, <<>>, Raised)>>)
                 /\ UNCHANGED <<session, registry, sessionState, registryState>>
             [] outcome = "registry_error" ->
                 /\ session' = n
                 /\ sessionState' = [sessionState EXCEPT ![n] = "open"]
                 /\ Complete(c, "login", "", Raise,
                        <<Call("ClientSession", NoHandle, <<>>, n),
                          Call("XRegistryCloud", NoHandle, <<n>>, Raised)>>)
                 /\ UNCHANGED <<registry, registryState>>
             [] OTHER ->
                 /\ session' = n
                 /\ registry' = n
                 /\ sessionState' = [sessionState EXCEPT ![n] = "open"]
                 /\ registryState' = [registryState EXCEPT ![n] = "created"]
                 /\ Suspend(c, "login:45",
                        <<Call("ClientSession", NoHandle, <<>>, n),
                          Call("XRegistryCloud", NoHandle, <<n>>, n),
                          Call("login", n, <<>>, "pending")>>)

\* login(), lines 45-57: registry.login() answers.  If it raises, login
\* raises; otherwise self.registry is read again, started, and login
\* suspends in asyncio.sleep(2).
LoginAuthenticated(c, ok) ==
    /\ frames[c].pc = "login:45"
    /\ stale' = FALSE
    /\ UNCHANGED <<session, registry, devices, sessionState, everLogin,
                   closedSince>>
    /\ LET log == frames[c].calls
           n == log[3].target
       IN  IF ok
           THEN /\ registryAuth' = [registryAuth EXCEPT ![n] = TRUE]
                /\ registryState' = Started(registryState, registry)
                /\ Suspend(c, "login:57",
                       <<log[1], log[2], Call("login", n, <<>>, "None"),
                         Call("start", registry, <<>>, "None")>>)
           ELSE /\ UNCHANGED <<registryAuth, registryState>>
                /\ Complete(c, "login", "", Raise,
                       <<log[1], log[2], Call("login", n, <<>>, Raised)>>)

\* login(), line 57: the sleep is over, login returns None.
LoginSlept(c) ==
    /\ frames[c].pc = "login:57"
    /\ stale' = FALSE
    /\ UNCHANGED <<session, registry, devices, sessionState, registryState,
                   registryAuth, everLogin, closedSince>>
    /\ Complete(c, "login", "", Return("None"),
           Append(frames[c].calls, Call("sleep", NoHandle, <<2>>, "None")))

\* discover_switches(), lines 67-72: without a registry it returns [];
\* otherwise it calls get_homes() and suspends in it.
DiscoverStart(c) ==
    /\ frames[c].pc = "idle"
    /\ stale' = FALSE
    /\ UNCHANGED <<session, registry, devices, sessionState, registryState,
                   registryAuth, everLogin, closedSince>>
    /\ IF NoRegistry(registry)
       THEN Complete(c, "discover_switches", "", Return(<<>>), <<>>)
       ELSE Suspend(c, "discover:72",
                <<Call("get_homes", registry, <<>>, "pending")>>)

\* discover_switches(), lines 72-78: get_homes() raises, or answers and
\* get_devices() is called on self.registry, read again.
DiscoverHomes(c, ok, homes) ==
    /\ frames[c].pc = "discover:72"
    /\ stale' = FALSE
    /\ UNCHANGED <<session, registry, devices, sessionState, registryState,
                   registryAuth, everLogin, closedSince>>
    /\ LET r == frames[c].calls[1].target
       IN  IF ok
           THEN Suspend(c, "discover:78",
                    <<Call("get_homes", r, <<>>, homes),
                      Call("get_devices", registry, <<homes>>, "pending")>>)
           ELSE Complete(c, "discover_switches", "", Raise,
                    <<Call("get_homes", r, <<>>, Raised)>>)

\* discover_switches(), lines 78-87: get_devices() raises, or answers with
\* all; then is_switch raises on a record, or the filtered list is stored
\* and returned.
DiscoverDevices(c, ok, all) ==
    /\ frames[c].pc = "discover:78"
    /\ UNCHANGED <<session, registry, sessionState, registryState,
                   registryAuth, everLogin, closedSince>>
    /\ LET log == frames[c].calls
           r == log[2].target
           homes == log[1].ret
       IN  IF ~ok
           THEN /\ Complete(c, "discover_switches", "", Raise,
                       <<log[1], Call("get_devices", r, <<homes>>, Raised)>>)
                /\ stale' = FALSE
                /\ UNCHANGED devices
           ELSE IF \E i \in DOMAIN all : is_switch_raises(all[i])
           THEN /\ Complete(c, "discover_switches", "", Raise,
                       <<log[1], Call("get_devices", r, <<homes>>, all)>>)
                /\ stale' = FALSE
                /\ UNCHANGED devices
           ELSE /\ devices' = StoreDiscovered(devices, all)
                /\ Complete(c, "discover_switches", "", Return(devices'),
                       <<log[1], Call("get_devices", r, <<homes>>, all)>>)
                /\ stale' = \E i \in DOMAIN devices : devices[i] \notin Range(all)

\* turn_on(device_id), lines 94-103: without a registry, or without a
\* record of that id, it returns a token; _find_device may raise; line 102
\* reads device['name'] for the log message; then it calls registry.send()
\* and suspends in it.
TurnOn(c, device_id) ==
    /\ frames[c].pc = "idle"
    /\ stale' = FALSE
    /\ UNCHANGED <<session, registry, devices, sessionState, registryState,
                   registryAuth, everLogin, closedSince>>
    /\ LET ent == Entry(registry, devices)
       IN  IF NoRegistry(registry)
           THEN CompleteTurn(c, "turn_on", device_id,
                    Return(NoRegistryToken), <<>>, ent)
           ELSE IF find_device_raises(devices, device_id)
           THEN CompleteTurn(c, "turn_on", device_id, Raise, <<>>, ent)
           ELSE LET i == _find_device(devices, device_id)
                IN  IF i = 0
                    THEN CompleteTurn(c, "turn_on", device_id,
                             Return(NotFoundToken(device_id)), <<>>, ent)
                    ELSE IF "name" \notin DOMAIN devices[i]
                    THEN CompleteTurn(c, "turn_on", device_id, Raise, <<>>, ent)
                    ELSE SuspendTurn(c, "turn_on:103", device_id,
                             <<Call("send", registry,
                                    <<devices[i], [switch |-> "on"]>>,
                                    "pending")>>, ent)

\* turn_on(), line 103: send() answers tok, which turn_on returns.
TurnOnSent(c, tok) ==
    /\ frames[c].pc = "turn_on:103"
    /\ stale' = FALSE
    /\ UNCHANGED <<session, registry, devices, sessionState, registryState,
                   registryAuth, everLogin, closedSince>>
    /\ LET sent == frames[c].calls[1]
       IN  CompleteTurn(c, "turn_on", frames[c].arg, Return(tok),
               <<Call("send", sent.target, sent.args, tok)>>, frames[c].entry)

\* turn_off(device_id), lines 110-118; line 117 reads device['name'] before
\* the send.
TurnOff(c, device_id) ==
    /\ frames[c].pc = "idle"
    /\ stale' = FALSE
    /\ UNCHANGED <<session, registry, devices, sessionState, registryState,
                   registryAuth, everLogin, closedSince>>
    /\ LET ent == Entry(registry, devices)
       IN  IF NoRegistry(registry)
           THEN CompleteTurn(c, "turn_off", device_id,
                    Return(NoRegistryToken), <<>>, ent)
           ELSE IF find_device_raises(devices, device_id)
           THEN CompleteTurn(c, "turn_off", device_id, Raise, <<>>, ent)
           ELSE LET i == _find_device(devices, device_id)
                IN  IF i = 0
                    THEN CompleteTurn(c, "turn_off", device_id,
                             Return(NotFoundToken(device_id)), <<>>, ent)
                    ELSE IF "name" \notin DOMAIN devices[i]
                    THEN CompleteTurn(c, "turn_off", device_id, Raise, <<>>, ent)
                    ELSE SuspendTurn(c, "turn_off:118", device_id,
                             <<Call("send", registry,
                                    <<devices[i], [switch |-> "off"]>>,
                                    "pending")>>, ent)

\* turn_off(), line 118: send() answers tok, which turn_off returns.
TurnOffSent(c, tok) ==
    /\ frames[c].pc = "turn_off:118"
    /\ stale' = FALSE
    /\ UNCHANGED <<session, registry, devices, sessionState, registryState,
                   registryAuth, everLogin, closedSince>>
    /\ LET sent == frames[c].calls[1]
       IN  CompleteTurn(c, "turn_off", frames[c].arg, Return(tok),
               <<Call("send", sent.target, sent.args, tok)>>, frames[c].entry)

\* close(), lines 124-127: without a registry it returns; otherwise it calls
\* registry.stop() and suspends in it.  ok: stop() cancels the task and will
\* answer None; otherwise it will raise.
CloseStart(c, ok) ==
    /\ frames[c].pc = "idle"
    /\ stale' = FALSE
    /\ UNCHANGED <<session, registry, devices, sessionState, registryAuth,
                   everLogin>>
    /\ IF NoRegistry(registry)
       THEN /\ Complete(c, "close", "", Return("None"), <<>>)
            /\ closedSince' = TRUE
            /\ UNCHANGED registryState
       ELSE IF ok
       THEN /\ registryState' = Stopped(registryState, registry)
            /\ Suspend(c, "close:127",
                   <<Call("stop", registry, <<>>, "None")>>)
            /\ UNCHANGED closedSince
       ELSE /\ Suspend(c, "close:127",
                   <<Call("stop", registry, <<>>, Raised)>>)
            /\ UNCHANGED <<registryState, closedSince>>

\* close(), lines 127-131: stop() answers.  If it raises, close() raises.
\* Otherwise self.session is read and, if it is open, session.close() is
\* called and close() suspends in it.  ok: session.close() closes the
\* session and will answer None; otherwise it will raise.  The
\* session.closed query is logged with its answer.
CloseStopped(c, ok) ==
    /\ frames[c].pc = "close:127"
    /\ stale' = FALSE
    /\ UNCHANGED <<session, registry, devices, registryState, registryAuth,
                   everLogin>>
    /\ LET log == frames[c].calls
           wasClosed == session # NoHandle /\ sessionState[session] = "closed"
           query == Call("session.closed", session, <<>>, wasClosed)
       IN  IF log[1].ret = Raised
           THEN /\ Complete(c, "close", "", Raise, log)
                /\ UNCHANGED <<sessionState, closedSince>>
           ELSE IF ~SessionNeedsClose(session, sessionState)
           THEN /\ Complete(c, "close", "", Return("None"), <<log[1], query>>)
                /\ closedSince' = TRUE
                /\ UNCHANGED sessionState
           ELSE IF ok
           THEN /\ sessionState' = [sessionState EXCEPT ![session] = "closed"]
                /\ Suspend(c, "close:131",
                       <<log[1], query,
                         Call("session.close", session, <<>>, "None")>>)
                /\ UNCHANGED closedSince
           ELSE /\ Suspend(c, "close:131",
                       <<log[1], query,
                         Call("session.close", session, <<>>, Raised)>>)
                /\ UNCHANGED <<sessionState, closedSince>>

\* close(), line 131: session.close() answers; close() raises if it raised
\* and returns None otherwise.
CloseSessionClosed(c) ==
    /\ frames[c].pc = "close:131"
    /\ stale' = FALSE
    /\ UNCHANGED <<session, registry, devices, sessionState, registryState,
                   registryAuth, everLogin>>
    /\ IF frames[c].calls[3].ret = Raised
       THEN /\ Complete(c, "close", "", Raise, frames[c].calls)
            /\ UNCHANGED closedSince
       ELSE /\ Complete(c, "close", "", Return("None"), frames[c].calls)
            /\ closedSince' = TRUE

\* One step of a call of caller c; turn_on/turn_off are given an id of ids,
\* get_devices answers with a list of lists, send with a token of tokens.
Step(c, ids, lists, tokens) ==
    \/ \E outcome \in {"session_error", "registry_error", "proceed"} :
           LoginStart(c, outcome)
    \/ \E ok \in BOOLEAN : LoginAuthenticated(c, ok)
    \/ LoginSlept(c)
    \/ DiscoverStart(c)
    \/ \E ok \in BOOLEAN, homes \in HomeMaps : DiscoverHomes(c, ok, homes)
    \/ \E ok \in BOOLEAN, all \in lists : DiscoverDevices(c, ok, all)
    \/ \E id \in ids : TurnOn(c, id)
    \/ \E tok \in tokens : TurnOnSent(c, tok)
    \/ \E id \in ids : TurnOff(c, id)
    \/ \E tok \in tokens : TurnOffSent(c, tok)
    \/ \E ok \in BOOLEAN : CloseStart(c, ok)
    \/ \E ok \in BOOLEAN : CloseStopped(c, ok)
    \/ CloseSessionClosed(c)

\* One caller: every call is awaited before the next is made.
Next == Step("c1", RequestIds, UpstreamLists, SendTokens)

Spec == Init /\ [][Next]_vars

\* Two callers: calls on the one manager may overlap.  The second caller's
\* slot is used only while the first has a call in progress or the second
\* has not finished its own.  The data are a few fixed cases: a matching and
\* an unknown id, three answers of get_devices, one token of send.
OverlapIds == {"A", "Z"}

OverlapLists == {<<>>, <<StripA, LampA>>, <<SensorB>>}

NextOverlap ==
    \/ Step("c1", OverlapIds, OverlapLists, {"online"})
    \/ /\ frames["c1"].pc # "idle" \/ frames["c2"].pc # "idle"
       /\ Step("c2", OverlapIds, OverlapLists, {"online"})

SpecOverlap == Init /\ [][NextOverlap]_vars

\* One caller, and a cloud that may also answer with malformed records.
NextMalformed ==
    Step("c1", RequestIds, UpstreamLists \cup MalformedLists, {"online"})

SpecMalformed == Init /\ [][NextMalformed]_vars

\* ------------------------------------------------------------- properties
\* What the documentation calls switch-capable, stated on the record alone.
HasSwitchKey(d) ==
    /\ "params" \in DOMAIN d
    /\ (DOMAIN d.params) \cap {"switch", "switches"} # {}

\* The subsequence of s of the switch-capable records, in order.
RECURSIVE SwitchSubseq(_)
SwitchSubseq(s) ==
    IF s = <<>> THEN <<>>
    ELSE IF HasSwitchKey(Head(s))
         THEN <<Head(s)>> \o SwitchSubseq(Tail(s))
         ELSE SwitchSubseq(Tail(s))

\* The string part occurs in the string whole.
Contains(whole, part) ==
    \E i \in 1..(Len(whole) - Len(part) + 1) :
        SubSeq(whole, i, i + Len(part) - 1) = part

Occurrences(s, r) == Cardinality({i \in DOMAIN s : s[i] = r})

IsTurn(op) == op.op \in {"turn_on", "turn_off"}

Matches(devs, id) == {i \in DOMAIN devs : devs[i].deviceid = id}

DiscoverReturned ==
    /\ lastOp.op = "discover_switches"
    /\ registry # NoHandle
    /\ result.kind = "return"

\* C1: with a registry present, turn_on/turn_off of an id that is the
\* deviceid of no record in the device list the call finds returns an error
\* token that contains exactly that id, and makes no call on the registry.
C1_UnknownIdTokenNoSend ==
    (IsTurn(lastOp) /\ seen.registry # NoHandle
                    /\ Matches(seen.devices, lastOp.arg) = {})
        => /\ result.kind = "return"
           /\ SubSeq(result.val, 1, 2) = "E#"
           /\ Contains(result.val, lastOp.arg)
           /\ calls = <<>>

C1_Witness ==
    /\ lastOp = [op |-> "turn_off", arg |-> "B"]
    /\ seen.registry # NoHandle
    /\ seen.devices # <<>>
    /\ Matches(seen.devices, "B") = {}

\* C2: turn_on/turn_off called before any login, or after close() with no
\* login since, returns the no-registry sentinel and calls nothing.
C2_SentinelBeforeLoginOrAfterClose ==
    (IsTurn(lastOp) /\ (~everLogin \/ closedSince))
        => /\ result.kind = "return"
           /\ result.val = "E#NoRegistry"
           /\ calls = <<>>

\* C3: with a registry present, a discover_switches() that returns gives
\* exactly the switch-capable subsequence of what get_devices returned
\* (order kept, duplicates kept), and that is the list now stored.
C3_DiscoverIsSwitchSubsequence ==
    DiscoverReturned
        => /\ result.val = SwitchSubseq(calls[2].ret)
           /\ devices = result.val

C3_Witness ==
    /\ DiscoverReturned
    /\ calls[2].ret = <<BareC, StripA>>
    /\ result.val = <<StripA>>

\* C4: in every reachable state every record of the device list has a
\* switch or switches key in its params.
C4_DeviceListOnlySwitches ==
    \A i \in DOMAIN devices : HasSwitchKey(devices[i])

C4_Witness ==
    /\ devices # <<>>
    /\ lastOp.op = "login"
    /\ result.kind = "raise"

\* C5: a successful discover_switches() replaces the list: what is stored
\* and returned holds no record more often than the latest enumeration
\* does, so nothing of an earlier discovery is left over.
C5_DiscoverReplaces ==
    DiscoverReturned
        => /\ devices = result.val
           /\ \A r \in Range(devices) :
                Occurrences(devices, r) <= Occurrences(calls[2].ret, r)

C5_Witness ==
    /\ DiscoverReturned
    /\ stale
    /\ devices # <<>>

\* C6: with a registry present and an id that matches, turn_on/turn_off
\* call send once, with the first matching record and {switch: on/off},
\* return the token send returned, and leave the device list alone.
C6_TurnDelegatesToSend ==
    (IsTurn(lastOp) /\ seen.registry # NoHandle
                    /\ Matches(seen.devices, lastOp.arg) # {})
        => LET hits == Matches(seen.devices, lastOp.arg)
               first == CHOOSE i \in hits : \A j \in hits : i <= j
               value == IF lastOp.op = "turn_on" THEN "on" ELSE "off"
           IN  /\ Len(calls) = 1
               /\ calls[1].method = "send"
               /\ calls[1].target = seen.registry
               /\ calls[1].args = <<seen.devices[first], [switch |-> value]>>
               /\ result.kind = "return"
               /\ result.val = calls[1].ret
               /\ devices = seen.devices

\* A turn_off has just sent to the first of two records sharing an id and
\* returned the token of that send.
C6_Witness ==
    /\ lastOp = [op |-> "turn_off", arg |-> "A"]
    /\ seen.devices = <<LampA, StripA>>
    /\ Len(calls) = 1
    /\ calls[1].method = "send"
    /\ calls[1].args = <<LampA, [switch |-> "off"]>>
    /\ result = Return("offline")

\* C7: close() on a manager that never logged in raises nothing, calls
\* nothing and leaves session, registry and device list as they were.
C7_CloseBeforeLoginIsNoOp ==
    [][(lastOp'.op = "close" /\ ~everLogin)
        => /\ result'.kind = "return"
           /\ calls' = <<>>
           /\ UNCHANGED <<session, registry, devices, sessionState,
                          registryState, registryAuth>>]_vars

C7_Witness ==
    /\ lastOp.op = "close"
    /\ ~everLogin
    /\ calls = <<>>

\* C8: at most one session is open and at most one channel task is running
\* at any time.
C8_AtMostOneActivePair ==
    /\ Cardinality({i \in ObjectIds : sessionState[i] = "open"}) <= 1
    /\ Cardinality({i \in ObjectIds : registryState[i] = "running"}) <= 1

\* C9: with a registry present, close() stops the registry first, then
\* closes the session only when it is not closed yet; the session's close
\* is never called on a closed session, and after close() has returned the
\* controller's current session is closed.
C9_CloseStopsThenClosesOnce ==
    (lastOp.op = "close" /\ registry # NoHandle)
        => /\ calls # <<>>
           /\ calls[1].method = "stop"
           /\ calls[1].target # NoHandle
           /\ \A i \in DOMAIN calls :
                calls[i].method = "session.close"
                    => /\ i = 3
                       /\ calls[2].ret = FALSE
                       /\ calls[i].target = calls[2].target
           /\ result.kind = "return"
                => /\ session # NoHandle
                   /\ sessionState[session] = "closed"

\* close() called again after a login that failed in registry.login():
\* stop is called, the session is found closed and left alone.
C9_Witness ==
    /\ lastOp.op = "close"
    /\ result.kind = "return"
    /\ registry # NoHandle
    /\ registryState[registry] = "created"
    /\ Len(calls) = 2
    /\ calls[2].ret = TRUE

\* C10: send is only ever called on a registry whose login() completed and
\* whose channel task login started.
C10_SendOnlyOnAuthenticatedRegistry ==
    \A i \in DOMAIN calls :
        calls[i].method = "send"
            => /\ registryAuth[calls[i].target]
               /\ registryState[calls[i].target] \in {"running", "stopped"}

====
